---- MODULE Spec2Model ----
(***************************************************************************)
(* Model of the comment selection, batching, dispatch and merge pipeline   *)
(* of the Guardian comments analyzer (comment_analyzer.py, app.py).        *)
(*                                                                         *)
(* A comment is a record [id, numRecommends]: id stands for the comment's  *)
(* identity (its body and author, its position in the fetched list), and   *)
(* numRecommends is the like count, or Absent when the dict has no such    *)
(* key.                                                                    *)
(***************************************************************************)
EXTENDS Integers, Sequences, FiniteSets, TLC

\* ---------------------------------------------------------------- bounds
MaxComments == 5      \* longest comment list drawn as input
MaxRecommends == 1    \* largest numRecommends drawn as input
MaxCount == 5         \* largest max_comments drawn as input
MaxEntries == 2       \* most entries drawn for the results of one merge
MaxBatchComments == 3 \* longest comment list drawn for the batched pipeline
MaxBatchSize == 2     \* largest batch_size drawn as input

\* The value standing for "the dict has no such key" in an integer field.
Absent == -1

\* ------------------------------------------------------- python helpers
Min(a, b) == IF a < b THEN a ELSE b

\* s[lo:hi] for 0 <= lo, 0 <= hi (Python clamps both ends to len(s)).
Slice(s, lo, hi) ==
    LET h == Min(hi, Len(s))
    IN IF lo >= h THEN <<>> ELSE SubSeq(s, lo + 1, h)

\* s[lo:]
SliceFrom(s, lo) == Slice(s, lo, Len(s))

\* s[::step] for step >= 1: the elements at indices 0, step, 2*step, ...
SliceStep(s, step) ==
    LET n == (Len(s) + step - 1) \div step
    IN [k \in 1..n |-> s[(k - 1) * step + 1]]

\* c.get('numRecommends', 0)
Recommends(c) == IF c.numRecommends = Absent THEN 0 ELSE c.numRecommends

\* ---------------------------------------------------------------- sorting
\* sorted(comments, key=lambda c: c.get('numRecommends', 0), reverse=True):
\* Python's sort is stable, also under reverse=True, so each comment goes
\* behind every earlier comment whose key is at least its own.
\* The sort with equal keys reversed, as an unstable sort could leave them.
RECURSIVE SortByRecommendsTiesReversed(_)
SortByRecommendsTiesReversed(cs) ==
    IF cs = <<>> THEN <<>>
    ELSE LET rest == SortByRecommendsTiesReversed(SubSeq(cs, 1, Len(cs) - 1))
             x == cs[Len(cs)]
             p == Cardinality({k \in 1..Len(rest) : Recommends(rest[k]) > Recommends(x)})
         IN SubSeq(rest, 1, p) \o <<x>> \o SubSeq(rest, p + 1, Len(rest))

RECURSIVE SortByRecommends(_)
SortByRecommends(cs) ==
    IF cs = <<>> THEN <<>>
    ELSE LET rest == SortByRecommends(SubSeq(cs, 1, Len(cs) - 1))
             x == cs[Len(cs)]
             p == Cardinality({k \in 1..Len(rest) : Recommends(rest[k]) >= Recommends(x)})
         IN SubSeq(rest, 1, p) \o <<x>> \o SubSeq(rest, p + 1, Len(rest))

\* --------------------------------------------------------------- selector
\* prepare_comments_for_analysis, lines 53-61: the selection out of the
\* sorted comments.  raised is TRUE when the step computation divides by
\* zero (ZeroDivisionError), and then nothing is selected.
\* The selection with the size test of line 53 written >= instead of >.
SelectCommentsAtLeast(sorted_comments, max_comments) ==
    LET half == max_comments \div 2
        top_comments == Slice(sorted_comments, 0, half)
        remaining == SliceFrom(sorted_comments, half)
    IN IF Len(sorted_comments) >= max_comments
       THEN IF Len(remaining) > half /\ half = 0
            THEN [raised |-> TRUE, selected |-> <<>>]
            ELSE LET step == IF Len(remaining) > half
                             THEN Len(remaining) \div half ELSE 1
                     sampled == Slice(SliceStep(remaining, step), 0, half)
                 IN [raised |-> FALSE, selected |-> top_comments \o sampled]
       ELSE [raised |-> FALSE, selected |-> sorted_comments]

SelectComments(sorted_comments, max_comments) ==
    LET half == max_comments \div 2
        top_comments == Slice(sorted_comments, 0, half)
        remaining == SliceFrom(sorted_comments, half)
    IN IF Len(sorted_comments) > max_comments
       THEN IF Len(remaining) > half /\ half = 0
            THEN [raised |-> TRUE, selected |-> <<>>]
            ELSE LET step == IF Len(remaining) > half
                             THEN Len(remaining) \div half ELSE 1
                     sampled == Slice(SliceStep(remaining, step), 0, half)
                 IN [raised |-> FALSE, selected |-> top_comments \o sampled]
       ELSE [raised |-> FALSE, selected |-> sorted_comments]

\* The text block numbered by enumerate(selected) without its start of 1.
FormatCommentsFromZero(sel) ==
    [k \in 1..Len(sel) |-> [index |-> k - 1, likes |-> Recommends(sel[k]), id |-> sel[k].id]]

\* prepare_comments_for_analysis, lines 64-71: one line per selected
\* comment, numbered from 1; the line keeps the like count and the
\* comment's author and body (its id).
FormatComments(sel) ==
    [k \in 1..Len(sel) |-> [index |-> k, likes |-> Recommends(sel[k]), id |-> sel[k].id]]

\* The function as a whole: the selection and its text block.
prepare_comments_for_analysis(cs, max_comments) ==
    LET r == SelectComments(SortByRecommends(cs), max_comments)
    IN [raised |-> r.raised, selected |-> r.selected, text |-> FormatComments(r.selected)]

\* ----------------------------------------------------------------- inputs
RecommendValues == {Absent} \cup (0..MaxRecommends)

\* The comment lists of length n: comment k has id k.
CommentLists(n) ==
    {[k \in 1..n |-> [id |-> k, numRecommends |-> f[k]]] : f \in [1..n -> RecommendValues]}

AllCommentLists == UNION {CommentLists(n) : n \in 0..MaxComments}

\* ----------------------------------------------------------------- merger
\* The value standing for "the dict has no such key" in a text field.
Missing == "<missing>"

\* d.get(key, default) on a text or integer field.
GetStr(v, default) == IF v = Missing THEN default ELSE v
GetInt(v, default) == IF v = Absent THEN default ELSE v

\* str.lower() on the texts of the model: every other text is lower case.
Lower(s) ==
    CASE s = "Nike" -> "nike"
      [] s = "NIKE" -> "nike"
      [] s = "Adidas" -> "adidas"
      [] s = "Kettle" -> "kettle"
      [] s = "KETTLE" -> "kettle"
      [] s = "Partnership" -> "partnership"
      [] OTHER -> s

\* The slices that truncate the merged lists.
RecLimit == 8
OppLimit == 5

\* A dict in insertion order: a sequence of [key, val] with distinct keys.
HasKey(d, key) == \E k \in 1..Len(d) : d[k].key = key
IndexOf(d, key) == CHOOSE k \in 1..Len(d) : d[k].key = key
Values(d) == [k \in 1..Len(d) |-> d[k].val]

\* sorted(seq, key=..., reverse=True) on the values of a merged dict: stable,
\* so a value goes behind every earlier value whose key is at least its own.
RECURSIVE SortPairsDesc(_)
SortPairsDesc(ps) ==
    IF ps = <<>> THEN <<>>
    ELSE LET rest == SortPairsDesc(SubSeq(ps, 1, Len(ps) - 1))
             x == ps[Len(ps)]
             p == Cardinality({k \in 1..Len(rest) : rest[k].sortkey >= x.sortkey})
         IN SubSeq(rest, 1, p) \o <<x>> \o SubSeq(rest, p + 1, Len(rest))

\* Line 304 with a sort that is not stable: brands of equal mentions come
\* out in the reverse of their first-seen order.
SortByMentionsTiesReversed(vals) ==
    LET n == Len(vals)
        sorted == SortPairsDesc([k \in 1..n |->
                                    [sortkey |-> vals[n + 1 - k].mentions,
                                     elem |-> vals[n + 1 - k]]])
    IN [k \in 1..n |-> sorted[k].elem]

\* Line 304: sorted(merged_brands.values(), key=mentions, reverse=True)
SortByMentions(vals) ==
    LET sorted == SortPairsDesc([k \in 1..Len(vals) |->
                                    [sortkey |-> vals[k].mentions, elem |-> vals[k]]])
    IN [k \in 1..Len(vals) |-> sorted[k].elem]

\* Line 305 without the sort: the recommendations in first-seen order.
SortByEndorsementsNone(vals) == vals

\* Line 305: sorted(merged_recommendations.values(), key=endorsements,
\* reverse=True)
SortByEndorsements(vals) ==
    LET sorted == SortPairsDesc([k \in 1..Len(vals) |->
                                    [sortkey |-> vals[k].endorsements, elem |-> vals[k]]])
    IN [k \in 1..Len(vals) |-> sorted[k].elem]

\* The brand merge keyed by the name as cased, without lower().
MergeBrandCaseSensitive(merged_brands, brand) ==
    LET name == GetStr(brand.name, "")
    IN IF name = "" THEN merged_brands
       ELSE IF HasKey(merged_brands, name)
       THEN LET k == IndexOf(merged_brands, name)
                old == merged_brands[k].val
            IN [merged_brands EXCEPT ![k].val =
                   [old EXCEPT !.mentions = old.mentions + GetInt(brand.mentions, 1),
                               !.sentiment = IF brand.sentiment \in {"positive", "negative"}
                                             THEN brand.sentiment ELSE old.sentiment]]
       ELSE Append(merged_brands,
                   [key |-> name,
                    val |-> [name |-> brand.name,
                             category |-> GetStr(brand.category, ""),
                             sentiment |-> GetStr(brand.sentiment, "neutral"),
                             mentions |-> GetInt(brand.mentions, 1)]])

\* The brand merge with line 270 written = instead of +=.
MergeBrandKeepLast(merged_brands, brand) ==
    LET name == Lower(GetStr(brand.name, ""))
    IN IF name = "" THEN merged_brands
       ELSE IF HasKey(merged_brands, name)
       THEN LET k == IndexOf(merged_brands, name)
                old == merged_brands[k].val
            IN [merged_brands EXCEPT ![k].val =
                   [old EXCEPT !.mentions = GetInt(brand.mentions, 1),
                               !.sentiment = IF brand.sentiment \in {"positive", "negative"}
                                             THEN brand.sentiment ELSE old.sentiment]]
       ELSE Append(merged_brands,
                   [key |-> name,
                    val |-> [name |-> brand.name,
                             category |-> GetStr(brand.category, ""),
                             sentiment |-> GetStr(brand.sentiment, "neutral"),
                             mentions |-> GetInt(brand.mentions, 1)]])

\* The brand merge with line 273 outside the test of line 272: the incoming
\* sentiment always replaces the stored one.
MergeBrandSentimentLast(merged_brands, brand) ==
    LET name == Lower(GetStr(brand.name, ""))
    IN IF name = "" THEN merged_brands
       ELSE IF HasKey(merged_brands, name)
       THEN LET k == IndexOf(merged_brands, name)
                old == merged_brands[k].val
            IN [merged_brands EXCEPT ![k].val =
                   [old EXCEPT !.mentions = old.mentions + GetInt(brand.mentions, 1),
                               !.sentiment = brand.sentiment]]
       ELSE Append(merged_brands,
                   [key |-> name,
                    val |-> [name |-> brand.name,
                             category |-> GetStr(brand.category, ""),
                             sentiment |-> GetStr(brand.sentiment, "neutral"),
                             mentions |-> GetInt(brand.mentions, 1)]])

\* Lines 265-280: one brand of one result into merged_brands.
MergeBrand(merged_brands, brand) ==
    LET name == Lower(GetStr(brand.name, ""))
    IN IF name = "" THEN merged_brands
       ELSE IF HasKey(merged_brands, name)
       THEN LET k == IndexOf(merged_brands, name)
                old == merged_brands[k].val
            IN [merged_brands EXCEPT ![k].val =
                   [old EXCEPT !.mentions = old.mentions + GetInt(brand.mentions, 1),
                               !.sentiment = IF brand.sentiment \in {"positive", "negative"}
                                             THEN brand.sentiment ELSE old.sentiment]]
       ELSE Append(merged_brands,
                   [key |-> name,
                    val |-> [name |-> brand.name,
                             category |-> GetStr(brand.category, ""),
                             sentiment |-> GetStr(brand.sentiment, "neutral"),
                             mentions |-> GetInt(brand.mentions, 1)]])

\* The recommendation merge with line 294 seeding the entry with 1
\* endorsement whatever the first occurrence holds.
MergeRecommendationSeedOne(merged_recommendations, rec) ==
    LET item == Lower(GetStr(rec.item, ""))
    IN IF item = "" THEN merged_recommendations
       ELSE IF HasKey(merged_recommendations, item)
       THEN LET k == IndexOf(merged_recommendations, item)
                old == merged_recommendations[k].val
            IN [merged_recommendations EXCEPT ![k].val =
                   [old EXCEPT !.endorsements = old.endorsements + GetInt(rec.endorsements, 1)]]
       ELSE Append(merged_recommendations,
                   [key |-> item,
                    val |-> [item |-> rec.item,
                             category |-> GetStr(rec.category, ""),
                             quote |-> GetStr(rec.quote, ""),
                             endorsements |-> 1]])

\* The recommendation merge with later occurrences also replacing the
\* category and the quote of the entry.
MergeRecommendationQuoteLast(merged_recommendations, rec) ==
    LET item == Lower(GetStr(rec.item, ""))
    IN IF item = "" THEN merged_recommendations
       ELSE IF HasKey(merged_recommendations, item)
       THEN LET k == IndexOf(merged_recommendations, item)
                old == merged_recommendations[k].val
            IN [merged_recommendations EXCEPT ![k].val =
                   [old EXCEPT !.endorsements = old.endorsements + GetInt(rec.endorsements, 1),
                               !.category = GetStr(rec.category, ""),
                               !.quote = GetStr(rec.quote, "")]]
       ELSE Append(merged_recommendations,
                   [key |-> item,
                    val |-> [item |-> rec.item,
                             category |-> GetStr(rec.category, ""),
                             quote |-> GetStr(rec.quote, ""),
                             endorsements |-> GetInt(rec.endorsements, 1)]])

\* Lines 283-295: one recommendation of one result into merged_recommendations.
MergeRecommendation(merged_recommendations, rec) ==
    LET item == Lower(GetStr(rec.item, ""))
    IN IF item = "" THEN merged_recommendations
       ELSE IF HasKey(merged_recommendations, item)
       THEN LET k == IndexOf(merged_recommendations, item)
                old == merged_recommendations[k].val
            IN [merged_recommendations EXCEPT ![k].val =
                   [old EXCEPT !.endorsements = old.endorsements + GetInt(rec.endorsements, 1)]]
       ELSE Append(merged_recommendations,
                   [key |-> item,
                    val |-> [item |-> rec.item,
                             category |-> GetStr(rec.category, ""),
                             quote |-> GetStr(rec.quote, ""),
                             endorsements |-> GetInt(rec.endorsements, 1)]])

\* The opportunity merge with a later occurrence of a key replacing the
\* stored one (line 301 without the test "key not in merged_opportunities").
MergeOpportunityLastWins(merged_opportunities, opp) ==
    LET key == <<Lower(GetStr(opp.target, "")), Lower(GetStr(opp.type, ""))>>
    IN IF key[1] = "" THEN merged_opportunities
       ELSE IF HasKey(merged_opportunities, key)
       THEN [merged_opportunities EXCEPT ![IndexOf(merged_opportunities, key)].val = opp]
       ELSE Append(merged_opportunities, [key |-> key, val |-> opp])

\* The opportunity merge without the test "key[0]" of line 300.
MergeOpportunityKeepsKeyless(merged_opportunities, opp) ==
    LET key == <<Lower(GetStr(opp.target, "")), Lower(GetStr(opp.type, ""))>>
    IN IF ~HasKey(merged_opportunities, key)
       THEN Append(merged_opportunities, [key |-> key, val |-> opp])
       ELSE merged_opportunities

\* Lines 298-301: one opportunity of one result into merged_opportunities.
MergeOpportunity(merged_opportunities, opp) ==
    LET key == <<Lower(GetStr(opp.target, "")), Lower(GetStr(opp.type, ""))>>
    IN IF key[1] # "" /\ ~HasKey(merged_opportunities, key)
       THEN Append(merged_opportunities, [key |-> key, val |-> opp])
       ELSE merged_opportunities

\* The inner loops of lines 265, 283 and 298 over one result's lists.
RECURSIVE MergeBrands(_, _)
MergeBrands(merged_brands, brands) ==
    IF brands = <<>> THEN merged_brands
    ELSE MergeBrands(MergeBrand(merged_brands, Head(brands)), Tail(brands))

RECURSIVE MergeRecommendations(_, _)
MergeRecommendations(merged_recommendations, recs) ==
    IF recs = <<>> THEN merged_recommendations
    ELSE MergeRecommendations(MergeRecommendation(merged_recommendations, Head(recs)), Tail(recs))

RECURSIVE MergeOpportunities(_, _)
MergeOpportunities(merged_opportunities, opps) ==
    IF opps = <<>> THEN merged_opportunities
    ELSE MergeOpportunities(MergeOpportunity(merged_opportunities, Head(opps)), Tail(opps))

\* The loop without the test of lines 261-262: no result is skipped.
SkippedNever(result) == FALSE

\* Lines 261-262: "if not result or 'error' in result: continue".  A result
\* is [error, raw, brands, recommendations, opportunities]; a list the dict
\* does not hold is the empty list (result.get(..., [])), and the empty dict
\* is the result with error FALSE and no list.
Skipped(result) == result.error

\* Lines 260-301: the loop over the results, on the three dicts.
RECURSIVE MergeLoop(_, _)
MergeLoop(acc, results) ==
    IF results = <<>> THEN acc
    ELSE LET result == Head(results)
         IN MergeLoop(
                IF Skipped(result) THEN acc
                ELSE [brands |-> MergeBrands(acc.brands, result.brands),
                      recommendations |-> MergeRecommendations(acc.recommendations,
                                                               result.recommendations),
                      opportunities |-> MergeOpportunities(acc.opportunities,
                                                           result.opportunities)],
                Tail(results))

\* The function as a whole: the loop, then lines 304-312.
merge_commercial_results(results) ==
    LET acc == MergeLoop([brands |-> <<>>, recommendations |-> <<>>, opportunities |-> <<>>],
                         results)
        brands_list == SortByMentions(Values(acc.brands))
        recs_list == Slice(SortByEndorsements(Values(acc.recommendations)), 0, RecLimit)
        opps_list == Slice(Values(acc.opportunities), 0, OppLimit)
    IN [error |-> FALSE, raw |-> Missing,
        brands |-> brands_list, recommendations |-> recs_list, opportunities |-> opps_list]

\* ------------------------------------------------------------------ state
VARIABLES
    pc,               \* the position of the operation under way
    comments,         \* the comments passed in
    max_comments,     \* prepare_comments_for_analysis: max_comments
    sorted_comments,  \* the local of that name (both functions)
    selected,         \* prepare_comments_for_analysis: selected
    formatted,        \* prepare_comments_for_analysis: formatted
    results,          \* merge_commercial_results: the results passed in
    merged,           \* merge_commercial_results(results)
    merged_inner,     \* merge_commercial_results(results[:2])
    merged_nested,    \* merge_commercial_results([merged_inner, results[2]])
    order,            \* a reordering of the results
    merged_reordered, \* merge_commercial_results of the reordered results
    batch_size,       \* extract_commercial_opportunities_batched: batch_size
    progress_callback,\* whether a progress_callback was passed
    batches,          \* the local of that name
    batch_index,      \* the loop's i, counted from 1
    comments_text,    \* the text block of the batch under way
    response,         \* the text the service answered the last call with
    batch_results,    \* the local of that name
    progress,         \* the calls made to progress_callback
    calls,            \* the text blocks sent to the service
    fault,            \* what raised, when the call ended by raising
    ret,              \* the value returned
    flow,             \* app.py: which generator runs
    anthropic_key,    \* whether ANTHROPIC_API_KEY is set
    guardian_key,     \* whether GUARDIAN_API_KEY is set
    articles,         \* what fetching each article's comments will give
    article_index,    \* the scraping loop's i, counted from 1
    total_comments,   \* len(comments) / len(all_comments)
    articles_with_comments, \* len(articles_with_comments)
    stream_batches,   \* the sizes of app.py's batches
    stream_batch_index, \* the batch loop's i, counted from 1
    events,           \* the events the generator has yielded
    service_calls,    \* the calls made to the sites and to the analysis service
    client,           \* comment_analyzer.py: the module's global of that name
    inv_pc,           \* each invocation's position in its analysis function
    inv_calls,        \* each invocation's analysis calls still to make
    loaded            \* each invocation's last load of the global client

selVars == <<comments, max_comments, sorted_comments, selected, formatted>>
mergeVars == <<results, merged, merged_inner, merged_nested, order, merged_reordered>>
batchVars == <<batch_size, progress_callback, batches, batch_index, comments_text,
               response, batch_results, progress, calls, fault, ret>>
streamVars == <<flow, anthropic_key, guardian_key, articles, article_index, total_comments,
                articles_with_comments, stream_batches, stream_batch_index, events,
                service_calls>>
clientVars == <<client, inv_pc, inv_calls, loaded>>
vars == <<pc, selVars, mergeVars, batchVars, streamVars, clientVars>>

\* The values of the variables an operation does not use.
IdleSelect ==
    /\ comments = <<>>
    /\ max_comments = 0
    /\ sorted_comments = <<>>
    /\ selected = <<>>
    /\ formatted = <<>>

IdleMerge ==
    /\ results = <<>>
    /\ merged = <<>>
    /\ merged_inner = <<>>
    /\ merged_nested = <<>>
    /\ order = <<>>
    /\ merged_reordered = <<>>

NoResponse == [kind |-> "none", raw |-> "", payload |-> <<>>]

IdleBatched ==
    /\ batch_size = 0
    /\ progress_callback = FALSE
    /\ batches = <<>>
    /\ batch_index = 0
    /\ comments_text = <<>>
    /\ response = NoResponse
    /\ batch_results = <<>>
    /\ progress = <<>>
    /\ calls = <<>>
    /\ fault = "none"
    /\ ret = <<>>

\* comment_analyzer.py line 34: client = None
NoClient == 0

IdleClient ==
    /\ client = NoClient
    /\ inv_pc = <<>>
    /\ inv_calls = <<>>
    /\ loaded = <<>>

IdleStream ==
    /\ flow = "none"
    /\ anthropic_key = FALSE
    /\ guardian_key = FALSE
    /\ articles = <<>>
    /\ article_index = 0
    /\ total_comments = 0
    /\ articles_with_comments = 0
    /\ stream_batches = <<>>
    /\ stream_batch_index = 0
    /\ events = <<>>
    /\ service_calls = <<>>

\* ------------------------------------------- prepare_comments_for_analysis
InitSelect ==
    /\ pc = "sel_sort"
    /\ comments \in AllCommentLists
    /\ max_comments \in 0..MaxCount
    /\ sorted_comments = <<>>
    /\ selected = <<>>
    /\ formatted = <<>>
    /\ IdleMerge
    /\ IdleBatched
    /\ IdleStream
    /\ IdleClient

\* Line 50.
SelSort ==
    /\ pc = "sel_sort"
    /\ sorted_comments' = SortByRecommends(comments)
    /\ pc' = "sel_choose"
    /\ UNCHANGED <<clientVars, comments, max_comments, selected, formatted, mergeVars, streamVars, batchVars>>

\* Lines 53-61, when the step computation does not fail.
SelChoose ==
    /\ pc = "sel_choose"
    /\ ~SelectComments(sorted_comments, max_comments).raised
    /\ selected' = SelectComments(sorted_comments, max_comments).selected
    /\ pc' = "sel_format"
    /\ UNCHANGED <<clientVars, comments, sorted_comments, max_comments, formatted, mergeVars, streamVars, batchVars>>

\* Line 57 dividing by zero: the call ends with ZeroDivisionError.
SelRaise ==
    /\ pc = "sel_choose"
    /\ SelectComments(sorted_comments, max_comments).raised
    /\ pc' = "sel_raised"
    /\ UNCHANGED <<clientVars, selVars, mergeVars, streamVars, batchVars>>

\* Lines 64-71.
SelFormat ==
    /\ pc = "sel_format"
    /\ formatted' = FormatComments(selected)
    /\ pc' = "sel_returned"
    /\ UNCHANGED <<clientVars, comments, sorted_comments, max_comments, selected, mergeVars, streamVars, batchVars>>

NextSelect == SelSort \/ SelChoose \/ SelRaise \/ SelFormat

SpecSelect == InitSelect /\ [][NextSelect]_vars

\* ------------------------------------------------ merge_commercial_results
\* The entries the analysis service's results are drawn from.
Brand(name, category, sentiment, mentions) ==
    [name |-> name, category |-> category, sentiment |-> sentiment, mentions |-> mentions]

BrandPool ==
    { Brand("Nike", "sportswear", "neutral", 3),
      Brand("NIKE", Missing, "positive", 2),
      Brand("nike", "shoes", "negative", Absent),
      Brand("Adidas", "sportswear", Missing, 5),
      Brand("adidas", "shoes", "mixed", 1),
      Brand("", "none", "positive", 4),
      Brand(Missing, "none", "negative", 4) }

Recommendation(item, category, quote, endorsements) ==
    [item |-> item, category |-> category, quote |-> quote, endorsements |-> endorsements]

RecommendationPool ==
    { Recommendation("Kettle", "kitchen", "love my kettle", 2),
      Recommendation("KETTLE", "home", "best kettle", 3),
      Recommendation("kettle", Missing, Missing, Absent),
      Recommendation("toaster", "kitchen", "toast", 1),
      Recommendation("", "none", "nothing", 4),
      Recommendation(Missing, "none", "nothing", 4) }

Opportunity(type, target, rationale) ==
    [type |-> type, target |-> target, rationale |-> rationale]

OpportunityPool ==
    { Opportunity("partnership", "Nike", "runners ask for it"),
      Opportunity("Partnership", "NIKE", "readers buy them"),
      Opportunity("sponsorship", "Nike", "events"),
      Opportunity(Missing, "Adidas", "no type"),
      Opportunity("partnership", "", "no target"),
      Opportunity("partnership", Missing, "no target key") }

\* A result that already holds n distinct recommendations or opportunities.
FillerItems == <<"f1", "f2", "f3", "f4", "f5", "f6", "f7", "f8">>
FillerRecommendations(n) ==
    [k \in 1..n |-> Recommendation(FillerItems[k], "filler", "", 2)]
FillerOpportunities(n) ==
    [k \in 1..n |-> Opportunity("affiliate", FillerItems[k], "filler")]

\* A result of the analysis service: a parsed object, or (error TRUE) a dict
\* with an "error" key.
Result(error, brands, recommendations, opportunities) ==
    [error |-> error, raw |-> IF error THEN "raw text" ELSE Missing,
     brands |-> brands, recommendations |-> recommendations,
     opportunities |-> opportunities]

SeqsUpTo(S, n) == UNION {[1..k -> S] : k \in 0..n}

\* The ways to cut a list of entries into three results.
Cuts(s) ==
    {<<SubSeq(s, 1, i), SubSeq(s, i + 1, j), SubSeq(s, j + 1, Len(s))>> :
        <<i, j>> \in {x \in (0..Len(s)) \X (0..Len(s)) : x[1] <= x[2]}}

\* Three results holding MaxEntries entries in all, of one kind, the first
\* result holding fillers before them; erroneous marks the error results.
BrandResults ==
    {[k \in 1..3 |-> Result(FALSE, t[k], <<>>, <<>>)] :
        t \in UNION {Cuts(s) : s \in SeqsUpTo(BrandPool, MaxEntries)}}

RecommendationResults ==
    {[k \in 1..3 |-> Result(FALSE, <<>>,
                            (IF k = 1 THEN FillerRecommendations(n) ELSE <<>>) \o t[k], <<>>)] :
        t \in UNION {Cuts(s) : s \in SeqsUpTo(RecommendationPool, MaxEntries)},
        n \in {0, RecLimit}}

OpportunityResults ==
    {[k \in 1..3 |-> Result(FALSE, <<>>, <<>>,
                            (IF k = 1 THEN FillerOpportunities(n) ELSE <<>>) \o t[k])] :
        t \in UNION {Cuts(s) : s \in SeqsUpTo(OpportunityPool, MaxEntries)},
        n \in {0, OppLimit}}

\* Three results holding the brands, the recommendations and the
\* opportunities of the merger's examples, each list cut on its own.
MixedResults ==
    {[k \in 1..3 |-> Result(FALSE, b[k], r[k], o[k])] :
        b \in Cuts(<<Brand("Nike", "sportswear", "neutral", 3),
                     Brand("NIKE", Missing, "positive", 2)>>),
        r \in Cuts(<<Recommendation("Kettle", "kitchen", "love my kettle", 2),
                     Recommendation("KETTLE", "home", "best kettle", 3)>>),
        o \in Cuts(<<Opportunity("partnership", "Nike", "runners ask for it"),
                     Opportunity("Partnership", "NIKE", "readers buy them")>>)}

\* Three results that each hold one occurrence of the same brand, of the
\* same recommendation and of the same opportunity, cased differently, the
\* brand with every choice of sentiments.
Sentiments == {"positive", "negative", "neutral", "mixed", Missing}

TripleBrandNames == <<"Nike", "NIKE", "nike">>
TripleCategories == <<"sportswear", Missing, "shoes">>
TripleRecommendations ==
    <<Recommendation("Kettle", "kitchen", "love my kettle", 2),
      Recommendation("KETTLE", "home", "best kettle", 3),
      Recommendation("kettle", Missing, Missing, Absent)>>
TripleOpportunities ==
    <<Opportunity("partnership", "Nike", "runners ask for it"),
      Opportunity("Partnership", "NIKE", "readers buy them"),
      Opportunity("partnership", "nike", "the club wears them")>>

TripleResults ==
    {[k \in 1..3 |-> Result(FALSE,
                            <<Brand(TripleBrandNames[k], TripleCategories[k], s[k], k)>>,
                            <<TripleRecommendations[k]>>,
                            <<TripleOpportunities[k]>>)] :
        s \in [1..3 -> Sentiments]}

\* Three results that hold entries without name, item or target, before,
\* after and between entries that have one.
KeylessResults ==
    { << Result(FALSE,
                <<Brand("", "none", "positive", 4), Brand("Nike", "sportswear", "neutral", 3)>>,
                <<Recommendation(Missing, "none", "nothing", 4),
                  Recommendation("Kettle", "kitchen", "love my kettle", 2)>>,
                <<Opportunity("partnership", "", "no target"),
                  Opportunity("partnership", "Nike", "runners ask for it")>>),
         Result(FALSE,
                <<Brand(Missing, "none", "negative", 4)>>,
                <<Recommendation("", "none", "nothing", 4)>>,
                <<Opportunity("partnership", Missing, "no target key"),
                  Opportunity(Missing, "Adidas", "no type")>>),
         Result(FALSE,
                <<Brand("NIKE", Missing, "positive", 2)>>,
                <<Recommendation("KETTLE", "home", "best kettle", 3)>>,
                <<>>) >> }

\* Three results that hold more distinct recommendations than RecLimit and
\* more distinct opportunities than OppLimit: the first result holds that
\* many already, with equal endorsements.
OverfullResults ==
    { << Result(FALSE, <<>>, FillerRecommendations(RecLimit), FillerOpportunities(OppLimit)),
         Result(FALSE, <<>>,
                <<Recommendation("Kettle", "kitchen", "love my kettle", 2),
                  Recommendation("toaster", "kitchen", "toast", 1)>>,
                <<Opportunity("partnership", "Nike", "runners ask for it")>>),
         Result(FALSE, <<>>,
                <<Recommendation("KETTLE", "home", "best kettle", 3)>>,
                <<Opportunity("Partnership", "NIKE", "readers buy them")>>) >> }

\* Three results whose brands come to equal totals: Adidas 5, seen first,
\* and Nike 3 + 2, with a brand of more mentions seen last.
TiedBrandResults ==
    { << Result(FALSE, <<Brand("Adidas", "sportswear", Missing, 5),
                         Brand("Nike", "sportswear", "neutral", 3)>>, <<>>, <<>>),
         Result(FALSE, <<Brand("NIKE", Missing, "positive", 2)>>, <<>>, <<>>),
         Result(FALSE, <<Brand("puma", "shoes", "mixed", 7)>>, <<>>, <<>>) >> }

WithErrors(rs, erroneous) ==
    [k \in 1..3 |-> IF k \in erroneous THEN [rs[k] EXCEPT !.error = TRUE, !.raw = "raw text"]
                    ELSE rs[k]]

InitMerge ==
    /\ pc = "merge_start"
    /\ \/ \E rs \in BrandResults \cup RecommendationResults \cup OpportunityResults
                     \cup MixedResults :
          \E e \in {{}, {1}, {2}, {3}} :
             results = WithErrors(rs, e)
       \/ \E rs \in TripleResults \cup KeylessResults \cup OverfullResults
                     \cup TiedBrandResults :
          \E e \in SUBSET (1..3) :
             results = WithErrors(rs, e)
    /\ merged = <<>>
    /\ merged_inner = <<>>
    /\ merged_nested = <<>>
    /\ order = <<>>
    /\ merged_reordered = <<>>
    /\ IdleSelect
    /\ IdleBatched
    /\ IdleStream
    /\ IdleClient

\* merge_commercial_results(results)
MergeAll ==
    /\ pc = "merge_start"
    /\ merged' = merge_commercial_results(results)
    /\ pc' = "merge_all"
    /\ UNCHANGED <<clientVars, results, merged_inner, merged_nested, order, merged_reordered, selVars, batchVars, streamVars>>

\* merge_commercial_results(results[:2])
MergeInner ==
    /\ pc = "merge_all"
    /\ merged_inner' = merge_commercial_results(SubSeq(results, 1, 2))
    /\ pc' = "merge_inner"
    /\ UNCHANGED <<clientVars, results, merged, merged_nested, order, merged_reordered, selVars, batchVars, streamVars>>

\* merge_commercial_results([merged_inner, results[2]])
MergeNested ==
    /\ pc = "merge_inner"
    /\ merged_nested' = merge_commercial_results(<<merged_inner, results[3]>>)
    /\ pc' = "merge_nested"
    /\ UNCHANGED <<clientVars, results, merged, merged_inner, order, merged_reordered, selVars, batchVars, streamVars>>

Reorderings == {p \in [1..3 -> 1..3] : {p[1], p[2], p[3]} = 1..3 /\ p # <<1, 2, 3>>}

\* merge_commercial_results of the same results in another order
MergeReordered ==
    /\ pc = "merge_nested"
    /\ \E p \in Reorderings :
          /\ order' = p
          /\ merged_reordered' = merge_commercial_results([k \in 1..3 |-> results[p[k]]])
    /\ pc' = "merge_reordered"
    /\ UNCHANGED <<clientVars, results, merged, merged_inner, merged_nested, selVars, batchVars, streamVars>>

NextMerge == MergeAll \/ MergeInner \/ MergeNested \/ MergeReordered

SpecMerge == InitMerge /\ [][NextMerge]_vars

\* ------------------------------ extract_commercial_opportunities_batched
\* range(0, n, batch_size), for batch_size >= 1, in increasing order.
RangeStarts(n, step) ==
    LET starts == {i \in 0..(n - 1) : i % step = 0}
    IN [k \in 1..Cardinality(starts) |-> (k - 1) * step]

\* The partition that keeps only the full batches.
BatchesFullOnly(sorted, size) ==
    [k \in 1..(Len(sorted) \div size) |-> Slice(sorted, (k - 1) * size, k * size)]

\* Lines 339-341 (app.py line 238): sorted_comments[i:i + batch_size] for
\* each i of the range.
Batches(sorted, size) ==
    LET starts == RangeStarts(Len(sorted), size)
    IN [k \in 1..Len(starts) |-> Slice(sorted, starts[k], starts[k] + size)]

\* The texts the service answers with.  kind tells what the parsing of
\* lines 237-245 meets: "json", the whole text is a JSON document; "wrapped",
\* it is not, and its first "{" to its last "}" is one; "garbled", it is not,
\* and it holds a "{" before a "}" but the text between is no JSON; "prose",
\* it is not and holds no such pair.  payload is the object of the JSON.
StrictParses(text) == text.kind = "json"
HasBraceSpan(text) == text.kind \in {"wrapped", "garbled"}
SpanParses(text) == text.kind = "wrapped"

\* extract_commercial_opportunities_aggregated, lines 237-245 (the same
\* lines as extract_commercial_opportunities, 210-218): raised is TRUE when
\* the json.loads of line 244 raises JSONDecodeError out of the function.
ParseAnalysisResponse(text) ==
    IF StrictParses(text)
    THEN [raised |-> FALSE, value |-> text.payload]
    ELSE IF HasBraceSpan(text)
         THEN IF SpanParses(text)
              THEN [raised |-> FALSE, value |-> text.payload]
              ELSE [raised |-> TRUE, value |-> <<>>]
         ELSE [raised |-> FALSE,
               value |-> [error |-> TRUE, raw |-> text.raw, brands |-> <<>>,
                          recommendations |-> <<>>, opportunities |-> <<>>]]

\* What the service finds in a text block: a brand mentioned once per
\* comment, and the block's first comment's recommendation.
AnalysisOf(text) ==
    Result(FALSE,
           <<Brand(IF text[1].id % 2 = 1 THEN "Nike" ELSE "NIKE", "sportswear",
                   IF text[1].likes > 0 THEN "positive" ELSE "neutral", Len(text))>>,
           <<Recommendation("Kettle", "kitchen", "love my kettle", text[1].likes + 1)>>,
           <<Opportunity("partnership", "Nike", "runners ask for it")>>)

\* The answers the service can give to a text block.
ResponsesTo(text) ==
    { [kind |-> "json", raw |-> "{json}", payload |-> AnalysisOf(text)],
      [kind |-> "wrapped", raw |-> "Here it is: {json}", payload |-> AnalysisOf(text)],
      [kind |-> "garbled", raw |-> "Here it is: {brands: ...}", payload |-> <<>>],
      [kind |-> "prose", raw |-> "I cannot analyse these comments.", payload |-> <<>>] }

BatchedComments == UNION {CommentLists(n) : n \in 0..MaxBatchComments}

InitBatched ==
    /\ pc = "bat_sort"
    /\ comments \in BatchedComments
    /\ batch_size \in 1..MaxBatchSize
    /\ progress_callback \in BOOLEAN
    /\ sorted_comments = <<>>
    /\ max_comments = 0
    /\ selected = <<>>
    /\ formatted = <<>>
    /\ batches = <<>>
    /\ batch_index = 0
    /\ comments_text = <<>>
    /\ response = NoResponse
    /\ batch_results = <<>>
    /\ progress = <<>>
    /\ calls = <<>>
    /\ fault = "none"
    /\ ret = <<>>
    /\ IdleMerge
    /\ IdleStream
    /\ IdleClient

\* Line 336.
BatSort ==
    /\ pc = "bat_sort"
    /\ sorted_comments' = SortByRecommends(comments)
    /\ pc' = "bat_split"
    /\ UNCHANGED <<clientVars, comments, max_comments, selected, formatted, mergeVars, streamVars, batchVars>>

\* Lines 339-344: the batches, and the empty result when there is none.
BatSplit ==
    /\ pc = "bat_split"
    /\ batches' = Batches(sorted_comments, batch_size)
    /\ IF batches' = <<>>
       THEN /\ ret' = Result(FALSE, <<>>, <<>>, <<>>)
            /\ pc' = "bat_returned"
            /\ UNCHANGED batch_index
       ELSE /\ batch_index' = 1
            /\ pc' = "bat_progress"
            /\ UNCHANGED ret
    /\ UNCHANGED <<clientVars, selVars, mergeVars, streamVars, batch_size, progress_callback, comments_text,
                   response, batch_results, progress, calls, fault>>

\* The progress callback given the loop's index i where the code gives i + 1.
BatProgressCountsFromZero ==
    /\ pc = "bat_progress"
    /\ progress' = IF progress_callback
                   THEN Append(progress, [current |-> batch_index - 1, total |-> Len(batches)])
                   ELSE progress
    /\ comments_text' =
          prepare_comments_for_analysis(batches[batch_index], Len(batches[batch_index])).text
    /\ pc' = "bat_call"
    /\ UNCHANGED <<clientVars, selVars, mergeVars, streamVars, batch_size, progress_callback, batches, batch_index,
                   response, batch_results, calls, fault, ret>>

\* Lines 349-353: the progress callback, when there is one, and the text
\* block of the batch.
BatProgress ==
    /\ pc = "bat_progress"
    /\ progress' = IF progress_callback
                   THEN Append(progress, [current |-> batch_index, total |-> Len(batches)])
                   ELSE progress
    /\ comments_text' =
          prepare_comments_for_analysis(batches[batch_index], Len(batches[batch_index])).text
    /\ pc' = "bat_call"
    /\ UNCHANGED <<clientVars, selVars, mergeVars, streamVars, batch_size, progress_callback, batches, batch_index,
                   response, batch_results, calls, fault, ret>>

\* Line 356 into lines 223-235: the call of the service answers with a text.
BatCall ==
    /\ pc = "bat_call"
    /\ calls' = Append(calls, comments_text)
    /\ \E text \in ResponsesTo(comments_text) : response' = text
    /\ pc' = "bat_parse"
    /\ UNCHANGED <<clientVars, selVars, mergeVars, streamVars, batch_size, progress_callback, batches, batch_index,
                   comments_text, batch_results, progress, fault, ret>>

\* Line 356 into line 231: the call of the service raises (the network, the
\* service's limits), and nothing catches it in the loop.
BatCallRaises ==
    /\ pc = "bat_call"
    /\ calls' = Append(calls, comments_text)
    /\ fault' = "call"
    /\ pc' = "bat_raised"
    /\ UNCHANGED <<clientVars, selVars, mergeVars, streamVars, batch_size, progress_callback, batches, batch_index,
                   comments_text, response, batch_results, progress, ret>>

\* Lines 237-245 and 357: the answer parsed and appended, and the loop's
\* next round.
BatParse ==
    /\ pc = "bat_parse"
    /\ ~ParseAnalysisResponse(response).raised
    /\ batch_results' = Append(batch_results, ParseAnalysisResponse(response).value)
    /\ batch_index' = batch_index + 1
    /\ pc' = IF batch_index < Len(batches) THEN "bat_progress" ELSE "bat_merge"
    /\ UNCHANGED <<clientVars, selVars, mergeVars, streamVars, batch_size, progress_callback, batches,
                   comments_text, response, progress, calls, fault, ret>>

\* Line 244 raising JSONDecodeError, which nothing catches in the loop.
BatParseRaises ==
    /\ pc = "bat_parse"
    /\ ParseAnalysisResponse(response).raised
    /\ fault' = "parse"
    /\ pc' = "bat_raised"
    /\ UNCHANGED <<clientVars, selVars, mergeVars, streamVars, batch_size, progress_callback, batches, batch_index,
                   comments_text, response, batch_results, progress, calls, ret>>

\* Line 360.
BatMerge ==
    /\ pc = "bat_merge"
    /\ ret' = merge_commercial_results(batch_results)
    /\ pc' = "bat_returned"
    /\ UNCHANGED <<clientVars, selVars, mergeVars, streamVars, batch_size, progress_callback, batches, batch_index,
                   comments_text, response, batch_results, progress, calls, fault>>

NextBatched ==
    \/ BatSort \/ BatSplit \/ BatProgress \/ BatCall \/ BatCallRaises
    \/ BatParse \/ BatParseRaises \/ BatMerge

SpecBatched == InitBatched /\ [][NextBatched]_vars

\* ------------------------------------------- app.py: the analysis streams
MaxArticles == 2

\* app.py lines 232 and 397: batch_size = 200
StreamBatchSize == 200
\* comment_analyzer.py line 44: max_comments: int = 200
DefaultMaxComments == 200
\* app.py lines 68 and 226: min(total, 200)
ReportedLimit == 200

\* What fetch_all_comments gives for an article: the number of its comments,
\* or FetchFails when it raises.
FetchFails == -1
CommentCounts == {0, 1, StreamBatchSize, StreamBatchSize + 1}
FetchOutcomes == {FetchFails} \cup CommentCounts

Flows == {"article", "keyword", "section"}

\* An event yielded through format_sse: its "type", then its "step" or
\* "section" or "message", and the number it reports, if any.
Event(type, tag, value) == [type |-> type, tag |-> tag, value |-> value]

\* The progress event of lines 249-253 and 411-415, "Processing batch
\* {i + 1}/{num_batches} ({len(batch)} comments)...".
BatchProgress(current, total, size) ==
    [type |-> "progress", tag |-> "analyzing", value |-> current, total |-> total,
     size |-> size]

\* A call out of the process: kind is "extract", "search", "fetch" or
\* "analysis"; size is the number of comments sent to the analysis service.
Call(kind, what, size) == [kind |-> kind, what |-> what, size |-> size]

\* len(selected) in prepare_comments_for_analysis (lines 53-61) for n
\* comments, with max_comments >= 2.
SelectedCount(n, max) ==
    IF n > max
    THEN LET half == max \div 2
             remaining == n - half
             step == IF remaining > half THEN remaining \div half ELSE 1
         IN half + Min(half, (remaining + step - 1) \div step)
    ELSE n

\* The sizes of the batches of app.py lines 238 and 400.
StreamBatchSizes(n, size) ==
    LET starts == RangeStarts(n, size)
    IN [k \in 1..Len(starts) |-> Min(size, n - starts[k])]

InitStream ==
    /\ pc = "st_check_key"
    /\ flow \in Flows
    /\ anthropic_key \in BOOLEAN
    /\ guardian_key \in BOOLEAN
    /\ articles \in IF flow = "article" THEN [1..1 -> FetchOutcomes]
                    ELSE SeqsUpTo(FetchOutcomes, MaxArticles)
    /\ article_index = 0
    /\ total_comments = 0
    /\ articles_with_comments = 0
    /\ stream_batches = <<>>
    /\ stream_batch_index = 0
    /\ events = <<>>
    /\ service_calls = <<>>
    /\ IdleSelect
    /\ IdleMerge
    /\ IdleBatched
    /\ IdleClient

\* The check of the credentials with the test of GUARDIAN_API_KEY left out.
StCheckKeysAnthropicOnly ==
    /\ pc = "st_check_key"
    /\ IF ~anthropic_key
       THEN /\ events' = Append(events, Event("error", "ANTHROPIC_API_KEY not set", 0))
            /\ pc' = "st_done"
       ELSE IF flow = "article"
       THEN /\ events' = Append(events, Event("progress", "scraping", 0))
            /\ pc' = "st_extract"
       ELSE /\ events' = Append(events, Event("progress", "searching", 0))
            /\ pc' = "st_search"
    /\ UNCHANGED <<clientVars, flow, anthropic_key, guardian_key, articles, article_index, total_comments,
                   articles_with_comments, stream_batches, stream_batch_index, service_calls,
                   selVars, mergeVars, batchVars>>

\* Lines 39-47, 136-155 and 304-316: the credentials, then the first
\* progress event.
StCheckKeys ==
    /\ pc = "st_check_key"
    /\ IF ~anthropic_key
       THEN /\ events' = Append(events, Event("error", "ANTHROPIC_API_KEY not set", 0))
            /\ pc' = "st_done"
       ELSE IF flow = "keyword" /\ ~guardian_key
       THEN /\ events' = Append(events, Event("error", "GUARDIAN_API_KEY not set", 0))
            /\ pc' = "st_done"
       ELSE IF flow = "article"
       THEN /\ events' = Append(events, Event("progress", "scraping", 0))
            /\ pc' = "st_extract"
       ELSE /\ events' = Append(events, Event("progress", "searching", 0))
            /\ pc' = "st_search"
    /\ UNCHANGED <<clientVars, flow, anthropic_key, guardian_key, articles, article_index, total_comments,
                   articles_with_comments, stream_batches, stream_batch_index, service_calls,
                   selVars, mergeVars, batchVars>>

\* generate_analysis, lines 48-50: extract_short_url returns, or raises
\* into lines 98-101.
StExtract ==
    /\ pc = "st_extract"
    /\ service_calls' = Append(service_calls, Call("extract", "short_url", 0))
    /\ \E ok \in BOOLEAN :
          IF ok
          THEN /\ events' = Append(events, Event("progress", "scraping", 0))
               /\ pc' = "st_fetch"
          ELSE /\ events' = Append(events, Event("error", "exception", 0))
               /\ pc' = "st_done"
    /\ UNCHANGED <<clientVars, flow, anthropic_key, guardian_key, articles, article_index, total_comments,
                   articles_with_comments, stream_batches, stream_batch_index,
                   selVars, mergeVars, batchVars>>

\* generate_analysis, lines 51-81: the comments fetched, the meta event,
\* the completion when there is no comment, else the preparation.
StFetch ==
    /\ pc = "st_fetch"
    /\ service_calls' = Append(service_calls, Call("fetch", "comments", 0))
    /\ IF articles[1] = FetchFails
       THEN /\ events' = Append(events, Event("error", "exception", 0))
            /\ pc' = "st_done"
            /\ UNCHANGED total_comments
       ELSE /\ total_comments' = articles[1]
            /\ LET scraped == <<Event("progress", "scraping", articles[1]),
                                Event("result", "meta", Min(articles[1], ReportedLimit))>>
               IN IF articles[1] = 0
                  THEN /\ events' = events \o scraped
                                       \o <<Event("complete", "No comments to analyze.", 0)>>
                       /\ pc' = "st_done"
                  ELSE /\ events' = events \o scraped
                                       \o <<Event("progress", "preparing", 0),
                                            Event("progress", "analyzing", 0)>>
                       /\ pc' = "st_questions"
    /\ UNCHANGED <<clientVars, flow, anthropic_key, guardian_key, articles, article_index,
                   articles_with_comments, stream_batches, stream_batch_index,
                   selVars, mergeVars, batchVars>>

\* generate_analysis, lines 82-85: the discussion questions; the call
\* raising goes to lines 98-101.
StQuestions ==
    /\ pc = "st_questions"
    /\ service_calls' = Append(service_calls,
          Call("analysis", "questions", SelectedCount(total_comments, DefaultMaxComments)))
    /\ \E ok \in BOOLEAN :
          IF ok
          THEN /\ events' = events \o <<Event("result", "discussionQuestions", 0),
                                        Event("progress", "analyzing", 0)>>
               /\ pc' = "st_sentiment"
          ELSE /\ events' = Append(events, Event("error", "exception", 0))
               /\ pc' = "st_done"
    /\ UNCHANGED <<clientVars, flow, anthropic_key, guardian_key, articles, article_index, total_comments,
                   articles_with_comments, stream_batches, stream_batch_index,
                   selVars, mergeVars, batchVars>>

\* generate_analysis, lines 86-89: the sentiment.
StSentiment ==
    /\ pc = "st_sentiment"
    /\ service_calls' = Append(service_calls,
          Call("analysis", "sentiment", SelectedCount(total_comments, DefaultMaxComments)))
    /\ \E ok \in BOOLEAN :
          IF ok
          THEN /\ events' = events \o <<Event("result", "sentiment", 0),
                                        Event("progress", "analyzing", 0)>>
               /\ pc' = "st_commercial"
          ELSE /\ events' = Append(events, Event("error", "exception", 0))
               /\ pc' = "st_done"
    /\ UNCHANGED <<clientVars, flow, anthropic_key, guardian_key, articles, article_index, total_comments,
                   articles_with_comments, stream_batches, stream_batch_index,
                   selVars, mergeVars, batchVars>>

\* generate_analysis, lines 90-96: the commercial analysis, whose exception
\* line 92 replaces by the empty result (reported as value 0).
StCommercial ==
    /\ pc = "st_commercial"
    /\ service_calls' = Append(service_calls,
          Call("analysis", "commercial", SelectedCount(total_comments, DefaultMaxComments)))
    /\ \E ok \in BOOLEAN :
          events' = events \o <<Event("result", "commercialOpportunities", IF ok THEN 1 ELSE 0),
                                Event("complete", "Analysis complete", 0)>>
    /\ pc' = "st_done"
    /\ UNCHANGED <<clientVars, flow, anthropic_key, guardian_key, articles, article_index, total_comments,
                   articles_with_comments, stream_batches, stream_batch_index,
                   selVars, mergeVars, batchVars>>

\* generate_keyword_analysis, lines 157-177, and generate_section_analysis,
\* lines 318-338: the articles searched; the search raising goes to lines
\* 272-275 and 433-436.
StSearch ==
    /\ pc = "st_search"
    /\ service_calls' = Append(service_calls, Call("search", flow, 0))
    /\ \E ok \in BOOLEAN :
          IF ~ok
          THEN /\ events' = Append(events, Event("error", "exception", 0))
               /\ pc' = "st_done"
               /\ UNCHANGED article_index
          ELSE IF articles = <<>>
          THEN /\ events' = Append(events, Event("error", "No articles found", 0))
               /\ pc' = "st_done"
               /\ UNCHANGED article_index
          ELSE /\ events' = events \o <<Event("progress", "searching", Len(articles)),
                                        Event("result", "articles", Len(articles))>>
               /\ article_index' = 1
               /\ pc' = "st_scrape"
    /\ UNCHANGED <<clientVars, flow, anthropic_key, guardian_key, articles, total_comments,
                   articles_with_comments, stream_batches, stream_batch_index,
                   selVars, mergeVars, batchVars>>

\* The scraping loop without the handler of lines 206-211: a fetch that
\* raises goes to the generator's own handler and ends the run.
StScrapeFailureAborts ==
    /\ pc = "st_scrape"
    /\ service_calls' = Append(service_calls, Call("fetch", "comments", 0))
    /\ IF articles[article_index] = FetchFails
       THEN /\ events' = events \o <<Event("progress", "scraping", article_index),
                                     Event("error", "exception", 0)>>
            /\ pc' = "st_done"
            /\ UNCHANGED <<total_comments, articles_with_comments, article_index>>
       ELSE /\ events' = Append(events, Event("progress", "scraping", article_index))
            /\ total_comments' = total_comments + articles[article_index]
            /\ articles_with_comments' =
                  articles_with_comments + (IF articles[article_index] > 0 THEN 1 ELSE 0)
            /\ article_index' = article_index + 1
            /\ pc' = IF article_index < Len(articles) THEN "st_scrape" ELSE "st_collected"
    /\ UNCHANGED <<clientVars, flow, anthropic_key, guardian_key, articles, stream_batches,
                   stream_batch_index, selVars, mergeVars, batchVars>>

\* Lines 183-211 and 344-372: one round of the scraping loop; a fetch that
\* raises yields a warning and the loop goes on.
StScrape ==
    /\ pc = "st_scrape"
    /\ service_calls' = Append(service_calls, Call("fetch", "comments", 0))
    /\ IF articles[article_index] = FetchFails
       THEN /\ events' = events \o <<Event("progress", "scraping", article_index),
                                     Event("progress", "Warning: Could not fetch comments",
                                           article_index)>>
            /\ UNCHANGED <<total_comments, articles_with_comments>>
       ELSE /\ events' = Append(events, Event("progress", "scraping", article_index))
            /\ total_comments' = total_comments + articles[article_index]
            /\ articles_with_comments' =
                  articles_with_comments + (IF articles[article_index] > 0 THEN 1 ELSE 0)
    /\ article_index' = article_index + 1
    /\ pc' = IF article_index < Len(articles) THEN "st_scrape" ELSE "st_collected"
    /\ UNCHANGED <<clientVars, flow, anthropic_key, guardian_key, articles, stream_batches,
                   stream_batch_index, selVars, mergeVars, batchVars>>

\* Lines 213-245 and 374-407: no comment at all is an error event; else the
\* meta event, the batches and the progress event that announces them.
StCollected ==
    /\ pc = "st_collected"
    /\ IF total_comments = 0
       THEN /\ events' = Append(events,
                                 Event("error", "No comments found across any articles", 0))
            /\ pc' = "st_done"
            /\ UNCHANGED <<stream_batches, stream_batch_index>>
       ELSE /\ stream_batches' = StreamBatchSizes(total_comments, StreamBatchSize)
            /\ stream_batch_index' = 1
            /\ events' = events \o
                  <<Event("result", "meta",
                          IF flow = "keyword" THEN Min(total_comments, ReportedLimit)
                          ELSE total_comments),
                    Event("progress", "analyzing", Len(stream_batches'))>>
            /\ pc' = "st_batch_progress"
    /\ UNCHANGED <<clientVars, flow, anthropic_key, guardian_key, articles, article_index, total_comments,
                   articles_with_comments, service_calls, selVars, mergeVars, batchVars>>

\* Lines 249-253 and 411-415: the round's progress event; the generator is
\* suspended at this yield until the consumer asks for the next event.
StBatchProgress ==
    /\ pc = "st_batch_progress"
    /\ events' = Append(events,
                        BatchProgress(stream_batch_index, Len(stream_batches),
                                      stream_batches[stream_batch_index]))
    /\ pc' = "st_batch"
    /\ UNCHANGED <<clientVars, flow, anthropic_key, guardian_key, articles, article_index, total_comments,
                   articles_with_comments, stream_batches, stream_batch_index, service_calls,
                   selVars, mergeVars, batchVars>>

\* The batch loop with a handler that yields the error event for the batch
\* that failed and goes on with the next one.
StBatchErrorGoesOn ==
    /\ pc = "st_batch"
    /\ service_calls' = Append(service_calls,
          Call("analysis", "batch",
               SelectedCount(stream_batches[stream_batch_index],
                             stream_batches[stream_batch_index])))
    /\ \E ok \in BOOLEAN :
          events' = IF ok THEN events ELSE Append(events, Event("error", "exception", 0))
    /\ stream_batch_index' = stream_batch_index + 1
    /\ pc' = IF stream_batch_index < Len(stream_batches)
             THEN "st_batch_progress" ELSE "st_merge"
    /\ UNCHANGED <<clientVars, flow, anthropic_key, guardian_key, articles, article_index, total_comments,
                   articles_with_comments, stream_batches, selVars, mergeVars, batchVars>>

\* Lines 255-259 and 417-421: the batch formatted whole (max_comments =
\* len(batch)) and sent, and the loop's next round; a call that raises goes
\* to lines 272-275 and 433-436.
StBatch ==
    /\ pc = "st_batch"
    /\ service_calls' = Append(service_calls,
          Call("analysis", "batch",
               SelectedCount(stream_batches[stream_batch_index],
                             stream_batches[stream_batch_index])))
    /\ \E ok \in BOOLEAN :
          IF ok
          THEN /\ stream_batch_index' = stream_batch_index + 1
               /\ pc' = IF stream_batch_index < Len(stream_batches)
                        THEN "st_batch_progress" ELSE "st_merge"
               /\ UNCHANGED events
          ELSE /\ events' = Append(events, Event("error", "exception", 0))
               /\ pc' = "st_done"
               /\ UNCHANGED stream_batch_index
    /\ UNCHANGED <<clientVars, flow, anthropic_key, guardian_key, articles, article_index, total_comments,
                   articles_with_comments, stream_batches, selVars, mergeVars, batchVars>>

\* Lines 262-270 and 423-431: the merged result and the completion.
StMerge ==
    /\ pc = "st_merge"
    /\ events' = events \o <<Event("result", "commercialOpportunities", Len(stream_batches)),
                             Event("complete", "Analysis complete", 0)>>
    /\ pc' = "st_done"
    /\ UNCHANGED <<clientVars, flow, anthropic_key, guardian_key, articles, article_index, total_comments,
                   articles_with_comments, stream_batches, stream_batch_index, service_calls,
                   selVars, mergeVars, batchVars>>

NextStream ==
    \/ StCheckKeys \/ StExtract \/ StFetch \/ StQuestions \/ StSentiment \/ StCommercial
    \/ StSearch \/ StScrape \/ StCollected \/ StBatchProgress \/ StBatch \/ StMerge

SpecStream == InitStream /\ [][NextStream]_vars

\* The generator is driven to its end: the consumer of the stream asks for
\* the next event until there is none, and every call out of the process
\* returns or raises (the requests carry a timeout).
SpecStreamFair == SpecStream /\ WF_vars(NextStream)

\* ------------------- comment_analyzer.py: the client of the analysis service
MaxInvocations == 2
MaxCalls == 2

\* The pipeline invocations that run at the same time in the process (the
\* server answers each request on a thread of its own); the client that
\* get_client() builds for invocation i is known by the number i.
Invocations == 1..MaxInvocations

\* Each invocation has analysis calls to make: questions, sentiment,
\* commercial, or one per batch.
InitClient ==
    /\ pc = "client"
    /\ client = NoClient
    /\ inv_pc = [i \in Invocations |-> "enter"]
    /\ inv_calls \in [Invocations -> 1..MaxCalls]
    /\ loaded = [i \in Invocations |-> NoClient]
    /\ IdleSelect
    /\ IdleMerge
    /\ IdleBatched
    /\ IdleStream

\* Lines 84, 108, 131, 154, 177, 200, 223 into line 77: an analysis
\* function calls ensure_client(), which loads the global and tests it.
ClTest(i) ==
    /\ inv_pc[i] = "enter"
    /\ inv_calls[i] > 0
    /\ loaded' = [loaded EXCEPT ![i] = client]
    /\ inv_pc' = [inv_pc EXCEPT ![i] = IF client = NoClient THEN "create" ELSE "return"]
    /\ UNCHANGED <<pc, client, inv_calls, selVars, mergeVars, batchVars, streamVars>>

\* Line 78: client = get_client(); the store into the global.
ClCreate(i) ==
    /\ inv_pc[i] = "create"
    /\ client' = i
    /\ inv_pc' = [inv_pc EXCEPT ![i] = "return"]
    /\ UNCHANGED <<pc, inv_calls, loaded, selVars, mergeVars, batchVars, streamVars>>

\* Line 79: return client; the global loaded again.
ClReturn(i) ==
    /\ inv_pc[i] = "return"
    /\ loaded' = [loaded EXCEPT ![i] = client]
    /\ inv_pc' = [inv_pc EXCEPT ![i] = "use"]
    /\ UNCHANGED <<pc, client, inv_calls, selVars, mergeVars, batchVars, streamVars>>

\* Lines 88, 112, 135, 158, 181, 204, 231: client.messages.create(...), on
\* the global loaded once more; then the invocation's next analysis call.
ClUse(i) ==
    /\ inv_pc[i] = "use"
    /\ loaded' = [loaded EXCEPT ![i] = client]
    /\ inv_calls' = [inv_calls EXCEPT ![i] = @ - 1]
    /\ inv_pc' = [inv_pc EXCEPT ![i] = IF inv_calls[i] > 1 THEN "enter" ELSE "done"]
    /\ UNCHANGED <<pc, client, selVars, mergeVars, batchVars, streamVars>>

NextClient ==
    \E i \in Invocations : ClTest(i) \/ ClCreate(i) \/ ClReturn(i) \/ ClUse(i)

SpecClient == InitClient /\ [][NextClient]_vars

\* The two batch loops side by side: a run is a run of
\* extract_commercial_opportunities_batched or a run of one of the streams.
SpecPipelines == (InitBatched \/ InitStream) /\ [][NextBatched \/ NextStream]_vars

\* ------------------------------------------------- claims on the selector
\* The rank of comment c in the stable recommendCount-descending order of
\* cs: one more than the number of comments that go before it.
RankOf(c, cs) ==
    1 + Cardinality({k \in 1..Len(cs) :
                        \/ Recommends(cs[k]) > Recommends(c)
                        \/ Recommends(cs[k]) = Recommends(c) /\ k < c.id})

\* C3: with max_comments = 0 or with no comments, the selector raises no
\* error and selects nothing.
C3_EdgeCaseSelectsNothingWithoutError ==
    (max_comments = 0 \/ comments = <<>>) =>
        /\ pc # "sel_raised"
        /\ pc = "sel_returned" => selected = <<>>

\* C4: with more comments than max_comments, the selector selects exactly
\* max_comments comments.
C4_OversizedSelectsExactlyMaxCount ==
    Len(comments) > max_comments =>
        /\ pc # "sel_raised"
        /\ pc = "sel_returned" => Len(selected) = max_comments

\* C5: with more comments than max_comments, the first max_comments \div 2
\* selected comments are the comments of rank 1 .. max_comments \div 2 of the
\* stable descending order, in that order, and no comment selected after
\* them has more recommendations than any of them.
C5_HeadIsTopRanked ==
    (pc = "sel_returned" /\ Len(comments) > max_comments) =>
        LET half == max_comments \div 2
        IN /\ Len(selected) >= half
           /\ \A k \in 1..half :
                 /\ selected[k].id \in 1..Len(comments)
                 /\ selected[k] = comments[selected[k].id]
                 /\ RankOf(selected[k], comments) = k
           /\ \A t \in (half + 1)..Len(selected) : \A k \in 1..half :
                 Recommends(selected[t]) <= Recommends(selected[k])

\* A head of two comments with equal counts, followed by sampled comments,
\* out of comments that did not arrive in rank order.
C5_Witness ==
    /\ pc = "sel_returned"
    /\ Len(comments) > max_comments
    /\ max_comments \div 2 >= 2
    /\ Len(selected) > max_comments \div 2
    /\ Recommends(selected[1]) = Recommends(selected[2])
    /\ comments # sorted_comments

\* C6: with at most max_comments comments the call does not raise, and
\* every comment is selected, in descending order of numRecommends (a
\* missing count is 0), comments of equal count keeping their original
\* relative order.
C6_SmallInputAllSortedStable ==
    /\ Len(comments) <= max_comments => pc # "sel_raised"
    /\ (pc = "sel_returned" /\ Len(comments) <= max_comments) =>
        /\ Len(selected) = Len(comments)
        /\ {selected[k].id : k \in 1..Len(selected)} = 1..Len(comments)
        /\ \A k \in 1..Len(selected) : selected[k] = comments[selected[k].id]
        /\ \A i, j \in 1..Len(selected) :
              i < j => \/ Recommends(selected[i]) > Recommends(selected[j])
                       \/ /\ Recommends(selected[i]) = Recommends(selected[j])
                          /\ selected[i].id < selected[j].id

\* Three or more comments, reordered by the sort, a comment without count
\* tied with a comment of count 0.
C6_Witness ==
    /\ pc = "sel_returned"
    /\ Len(comments) <= max_comments
    /\ Len(comments) >= 3
    /\ selected # comments
    /\ \E i, j \in 1..Len(selected) :
          /\ i < j
          /\ selected[i].numRecommends = Absent
          /\ selected[j].numRecommends = 0

\* --------------------------------------------------- claims on the merger
Range(s) == {s[k] : k \in 1..Len(s)}

\* The results the merge reads: those without an "error" key.
RECURSIVE ValidResults(_)
ValidResults(rs) ==
    IF rs = <<>> THEN <<>>
    ELSE (IF Head(rs).error THEN <<>> ELSE <<Head(rs)>>) \o ValidResults(Tail(rs))

\* Every brand of the valid results, in the order of the results.
RECURSIVE BrandOccurrences(_)
BrandOccurrences(rs) ==
    IF rs = <<>> THEN <<>>
    ELSE (IF Head(rs).error THEN <<>> ELSE Head(rs).brands) \o BrandOccurrences(Tail(rs))

BrandKey(b) == Lower(IF b.name = Missing THEN "" ELSE b.name)

\* The sum of the mentions (1 when absent) of the occurrences of key in occ.
RECURSIVE MentionsSum(_, _)
MentionsSum(occ, key) ==
    IF occ = <<>> THEN 0
    ELSE (IF BrandKey(Head(occ)) = key
          THEN (IF Head(occ).mentions = Absent THEN 1 ELSE Head(occ).mentions)
          ELSE 0) + MentionsSum(Tail(occ), key)

FirstOccurrence(occ, key) ==
    occ[CHOOSE k \in 1..Len(occ) :
           /\ BrandKey(occ[k]) = key
           /\ \A j \in 1..(k - 1) : BrandKey(occ[j]) # key]

\* The case-folded recommendation items of the valid results.
RecommendationKeys(rs) ==
    {Lower(r.item) : r \in UNION {Range(rs[k].recommendations) :
                                     k \in {j \in 1..Len(rs) : ~rs[j].error}}}
        \ {"", Missing}

BrandTotals(m) == {<<Lower(b.name), b.mentions>> : b \in Range(m.brands)}

\* C8 as stated: merging the merge of the first two results with the third
\* gives the same set of recommendations (items and endorsement totals) and
\* the same set of opportunities as merging the three results at once.
C8_NestedMergeSameRecsAndOpps ==
    pc = "merge_nested" =>
        /\ Range(merged_nested.recommendations) = Range(merged.recommendations)
        /\ Range(merged_nested.opportunities) = Range(merged.opportunities)

\* C8 as amended: the opportunities are always the same, and the
\* recommendations are the same whenever the valid results hold at most
\* RecLimit distinct case-folded items, so that no merge truncates.
C8_NestedMergeSameWhenNotTruncated ==
    pc = "merge_nested" =>
        /\ merged_nested.opportunities = merged.opportunities
        /\ Cardinality(RecommendationKeys(results)) <= RecLimit =>
              Range(merged_nested.recommendations) = Range(merged.recommendations)

\* The first two results share an item and an opportunity key with the
\* third, and the totals come out the same both ways.
C8_Witness ==
    /\ pc = "merge_nested"
    /\ \A k \in 1..3 : ~results[k].error
    /\ Cardinality(RecommendationKeys(results)) <= RecLimit
    /\ merged_inner.recommendations # <<>>
    /\ results[3].recommendations # <<>>
    /\ merged_inner.opportunities # <<>>
    /\ results[3].opportunities # <<>>
    /\ \E r \in Range(merged_nested.recommendations) :
          Lower(r.item) = "kettle" /\ r.endorsements = 5
    /\ Len(merged_nested.opportunities) = 1

\* C9: for every case-folded brand name, merging the merge of the first two
\* results with the third gives the same mentions total as merging the three
\* at once, and so does merging the results in any other order.
C9_BrandTotalsAssociativeCommutative ==
    /\ pc = "merge_nested" => BrandTotals(merged_nested) = BrandTotals(merged)
    /\ pc = "merge_reordered" =>
          /\ BrandTotals(merged_nested) = BrandTotals(merged)
          /\ BrandTotals(merged_reordered) = BrandTotals(merged)

\* A brand cased differently in two results, merged in the other order.
C9_Witness ==
    /\ pc = "merge_reordered"
    /\ \A k \in 1..3 : ~results[k].error
    /\ \E i, j \in 1..3 :
          /\ i < j
          /\ \E k, l \in 1..3 : order[k] = j /\ order[l] = i /\ k < l
          /\ \E x \in Range(results[i].brands), y \in Range(results[j].brands) :
                /\ x.name # y.name
                /\ BrandKey(x) = "nike"
                /\ BrandKey(y) = "nike"
                /\ x.mentions # y.mentions
    /\ \E b \in Range(merged_reordered.brands) : b.mentions >= 5

\* C10: the merged brands hold one entry for each case-folded name that
\* occurs in a valid result, and no two for the same; the entry keeps the
\* name as its first occurrence cased it, and its mentions is the sum of the
\* mentions (1 when absent) of every occurrence.
C10_BrandsDeduplicated ==
    pc = "merge_all" =>
        LET occ == BrandOccurrences(results)
            bs == merged.brands
        IN /\ \A i, j \in 1..Len(bs) : i # j => Lower(bs[i].name) # Lower(bs[j].name)
           /\ {Lower(b.name) : b \in Range(bs)} = {BrandKey(b) : b \in Range(occ)} \ {""}
           /\ \A b \in Range(bs) :
                 /\ b.name = FirstOccurrence(occ, Lower(b.name)).name
                 /\ b.mentions = MentionsSum(occ, Lower(b.name))

\* {Nike, 3, neutral} and {NIKE, 2, positive}, in two results, merged to the
\* one entry {Nike, 5, positive}.
C10_Witness ==
    /\ pc = "merge_all"
    /\ results[1].brands = <<Brand("Nike", "sportswear", "neutral", 3)>>
    /\ results[2].brands = <<>>
    /\ results[3].brands = <<Brand("NIKE", Missing, "positive", 2)>>
    /\ \A k \in 1..3 : ~results[k].error
    /\ merged.brands = <<Brand("Nike", "sportswear", "positive", 5)>>

\* The occurrences of the brand of case-folded name key, in order.
BrandOccurrencesOf(occ, key) ==
    LET Same(b) == BrandKey(b) = key
    IN SelectSeq(occ, Same)

Polarized == {"positive", "negative"}

\* The sentiment last-polarized-wins gives the occurrences o of one brand.
ResolvedSentiment(o) ==
    LET later == {k \in 2..Len(o) : o[k].sentiment \in Polarized}
    IN IF later # {}
       THEN o[CHOOSE k \in later : \A j \in later : j <= k].sentiment
       ELSE IF o[1].sentiment = Missing THEN "neutral" ELSE o[1].sentiment

SentimentsResolved(m, rs) ==
    \A b \in Range(m.brands) :
        b.sentiment = ResolvedSentiment(BrandOccurrencesOf(BrandOccurrences(rs), Lower(b.name)))

\* C11: a merged brand's sentiment is that of its last occurrence after the
\* first whose sentiment is positive or negative, when there is one, and
\* else that of its first occurrence (neutral when the first holds none).
C11_SentimentLastPolarizedWins ==
    pc = "merge_all" => SentimentsResolved(merged, results)

\* positive, then negative, then mixed: the negative replaced the positive
\* and the mixed replaced nothing.
C11_Witness ==
    /\ pc = "merge_all"
    /\ \A k \in 1..3 : ~results[k].error /\ Len(results[k].brands) = 1
    /\ results[1].brands[1].sentiment = "positive"
    /\ results[2].brands[1].sentiment = "negative"
    /\ results[3].brands[1].sentiment = "mixed"
    /\ Len(merged.brands) = 1
    /\ merged.brands[1].sentiment = "negative"

\* Every recommendation of the valid results, in the order of the results.
RECURSIVE RecOccurrences(_)
RecOccurrences(rs) ==
    IF rs = <<>> THEN <<>>
    ELSE (IF Head(rs).error THEN <<>> ELSE Head(rs).recommendations)
            \o RecOccurrences(Tail(rs))

RecKey(r) == Lower(IF r.item = Missing THEN "" ELSE r.item)

\* The occurrences of the recommendation of case-folded item key, in order.
RecOccurrencesOf(occ, key) ==
    LET Same(r) == RecKey(r) = key
    IN SelectSeq(occ, Same)

Endorsements(r) == IF r.endorsements = Absent THEN 1 ELSE r.endorsements

RECURSIVE EndorsementsSum(_)
EndorsementsSum(o) ==
    IF o = <<>> THEN 0 ELSE Endorsements(Head(o)) + EndorsementsSum(Tail(o))

EndorsementsMax(o) ==
    CHOOSE e \in {Endorsements(o[k]) : k \in 1..Len(o)} :
        \A k \in 1..Len(o) : Endorsements(o[k]) <= e

OrEmpty(text) == IF text = Missing THEN "" ELSE text

RecommendationsSummed(m, rs) ==
    \A r \in Range(m.recommendations) :
        LET o == RecOccurrencesOf(RecOccurrences(rs), Lower(r.item))
        IN /\ r.endorsements = EndorsementsSum(o)
           /\ r.item = o[1].item
           /\ r.category = OrEmpty(o[1].category)
           /\ r.quote = OrEmpty(o[1].quote)

C13_RecommendationKeepsHighestEndorsement ==
    pc = "merge_all" =>
        /\ \A i, j \in 1..Len(merged.recommendations) :
              i # j => Lower(merged.recommendations[i].item)
                          # Lower(merged.recommendations[j].item)
        /\ \A r \in Range(merged.recommendations) :
              r.endorsements =
                 EndorsementsMax(RecOccurrencesOf(RecOccurrences(results), Lower(r.item)))

\* Every opportunity of the valid results, in the order of the results.
RECURSIVE OppOccurrences(_)
OppOccurrences(rs) ==
    IF rs = <<>> THEN <<>>
    ELSE (IF Head(rs).error THEN <<>> ELSE Head(rs).opportunities)
            \o OppOccurrences(Tail(rs))

OppKey(o) == <<Lower(OrEmpty(o.target)), Lower(OrEmpty(o.type))>>

\* The occurrences of the opportunity of key key, in order.
OppOccurrencesOf(occ, key) ==
    LET Same(o) == OppKey(o) = key
    IN SelectSeq(occ, Same)

OpportunitiesFirstSeen(m, rs) ==
    /\ \A i, j \in 1..Len(m.opportunities) :
          i # j => OppKey(m.opportunities[i]) # OppKey(m.opportunities[j])
    /\ \A o \in Range(m.opportunities) :
          o = OppOccurrencesOf(OppOccurrences(rs), OppKey(o))[1]

\* C14: the merged opportunities hold at most one entry for a key
\* (case-folded target, case-folded type), and the entry is, field for
\* field, the key's first occurrence in the non-error results taken in
\* order; this in whatever order the results are merged.
C14_OpportunityFirstOccurrenceWins ==
    /\ pc = "merge_all" => OpportunitiesFirstSeen(merged, results)
    /\ pc = "merge_reordered" =>
          OpportunitiesFirstSeen(merged_reordered, [k \in 1..3 |-> results[order[k]]])

\* Three occurrences of (nike, partnership) with three rationales, merged
\* in an order that puts the third result first: its rationale survives.
C14_Witness ==
    /\ pc = "merge_reordered"
    /\ \A k \in 1..3 : ~results[k].error
    /\ \A k \in 1..3 : results[k].opportunities = <<TripleOpportunities[k]>>
    /\ order[1] = 3
    /\ merged.opportunities = <<TripleOpportunities[1]>>
    /\ merged_reordered.opportunities = <<TripleOpportunities[3]>>

\* The results with the error-tagged and the empty ones removed.
RECURSIVE WithoutErrors(_)
WithoutErrors(rs) ==
    IF rs = <<>> THEN <<>>
    ELSE LET r == Head(rs)
             dropped == \/ r.error
                        \/ r.brands = <<>> /\ r.recommendations = <<>> /\ r.opportunities = <<>>
         IN (IF dropped THEN <<>> ELSE <<r>>) \o WithoutErrors(Tail(rs))

\* The keys of the merged entries are keys of entries of non-error results.
KeysFromValidResults(m, rs) ==
    /\ \A b \in Range(m.brands) :
          \E k \in 1..Len(rs) : ~rs[k].error /\ \E x \in Range(rs[k].brands) :
             BrandKey(x) = Lower(b.name)
    /\ \A r \in Range(m.recommendations) :
          \E k \in 1..Len(rs) : ~rs[k].error /\ \E x \in Range(rs[k].recommendations) :
             RecKey(x) = Lower(r.item)
    /\ \A o \in Range(m.opportunities) :
          \E k \in 1..Len(rs) : ~rs[k].error /\ \E x \in Range(rs[k].opportunities) :
             OppKey(x) = OppKey(o)

\* C15: the merge of the results is the merge of the same results with the
\* error-tagged and the empty ones removed (so an error result changes no
\* count, sentiment or order), and every merged entry's key comes from a
\* non-error result.
C15_ErrorResultsInvisible ==
    /\ pc = "merge_all" =>
          /\ merged = merge_commercial_results(WithoutErrors(results))
          /\ KeysFromValidResults(merged, results)
    /\ pc = "merge_inner" =>
          merged_inner = merge_commercial_results(WithoutErrors(SubSeq(results, 1, 2)))

\* The second of three results is error-tagged and holds a negative NIKE of
\* 2 mentions and a KETTLE of 3 endorsements: the merge counts the other two
\* results only, and the first result's positive sentiment stays.
C15_Witness ==
    /\ pc = "merge_all"
    /\ ~results[1].error /\ results[2].error /\ ~results[3].error
    /\ results[1].brands = <<Brand("Nike", "sportswear", "positive", 1)>>
    /\ results[2].brands = <<Brand("NIKE", Missing, "negative", 2)>>
    /\ results[3].brands = <<Brand("nike", "shoes", "mixed", 3)>>
    /\ results[2].recommendations = <<TripleRecommendations[2]>>
    /\ merged.brands = <<Brand("Nike", "sportswear", "positive", 4)>>
    /\ merged.recommendations = <<Recommendation("Kettle", "kitchen", "love my kettle", 3)>>

Keyless(text) == text \in {"", Missing}

\* The results without their brands that have no name, their
\* recommendations that have no item and their opportunities that have no
\* target.
StripKeyless(rs) ==
    LET NamedBrand(b) == ~Keyless(b.name)
        NamedRec(r) == ~Keyless(r.item)
        NamedOpp(o) == ~Keyless(o.target)
    IN [k \in 1..Len(rs) |->
           [rs[k] EXCEPT !.brands = SelectSeq(@, NamedBrand),
                         !.recommendations = SelectSeq(@, NamedRec),
                         !.opportunities = SelectSeq(@, NamedOpp)]]

FirstRec(occ, key) == CHOOSE k \in 1..Len(occ) :
    RecKey(occ[k]) = key /\ \A j \in 1..(k - 1) : RecKey(occ[j]) # key
FirstOpp(occ, key) == CHOOSE k \in 1..Len(occ) :
    OppKey(occ[k]) = key /\ \A j \in 1..(k - 1) : OppKey(occ[j]) # key

\* The entries out, of keys keyOf, are the keys of rank 1, 2, ... up to
\* limit, where key k goes before key l when Before[k][l].
RankedUpTo(keyOf, keys, before, limit) ==
    /\ Len(keyOf) = Min(limit, Cardinality(keys))
    /\ \A i \in 1..Len(keyOf) :
          /\ keyOf[i] \in keys
          /\ Cardinality({k \in keys : before[k][keyOf[i]]}) = i - 1

RecsBefore(keys, total, first) ==
    [k \in keys |-> [l \in keys |->
        \/ total[k] > total[l]
        \/ total[k] = total[l] /\ first[k] < first[l]]]

OppsBefore(keys, first) ==
    [k \in keys |-> [l \in keys |-> first[k] < first[l]]]

RecsShaped(out, recs, keys) ==
    RankedUpTo([i \in 1..Len(out) |-> Lower(out[i].item)], keys,
               RecsBefore(keys,
                          [k \in keys |-> EndorsementsSum(RecOccurrencesOf(recs, k))],
                          [k \in keys |-> FirstRec(recs, k)]),
               RecLimit)

OppsShaped(out, opps, keys) ==
    RankedUpTo([i \in 1..Len(out) |-> OppKey(out[i])], keys,
               OppsBefore(keys, [k \in keys |-> FirstOpp(opps, k)]),
               OppLimit)

\* The recommendations m holds are those of rank 1, 2, ... among the items
\* of rs by endorsements total descending, ties by first occurrence, and
\* the opportunities those of rank 1, 2, ... by first occurrence.
ShapedRecsAndOpps(m, rs) ==
    /\ RecsShaped(m.recommendations, RecOccurrences(rs),
                  {RecKey(r) : r \in Range(RecOccurrences(rs))} \ {""})
    /\ OppsShaped(m.opportunities, OppOccurrences(rs),
                  {k \in {OppKey(o) : o \in Range(OppOccurrences(rs))} : k[1] # ""})

\* C17: the merged recommendations are the RecLimit (8) entries, or all
\* when fewer, of highest endorsements total, in descending order of total
\* and, among equal totals, in first-seen order; the merged opportunities
\* are the first OppLimit (5) distinct keys, or all, in first-seen order.
C17_RecsTop8OppsFirst5 ==
    pc = "merge_all" => ShapedRecsAndOpps(merged, results)

\* Ten distinct recommendations and six distinct opportunities: the kettle
\* of total 5 goes first, seven of the eight tied at 2 follow in first-seen
\* order, the toaster of 1 and the eighth are cut, as is the sixth
\* opportunity.
C17_Witness ==
    /\ pc = "merge_all"
    /\ \A k \in 1..3 : ~results[k].error
    /\ results \in OverfullResults
    /\ merged.recommendations =
          <<Recommendation("Kettle", "kitchen", "love my kettle", 5)>>
             \o FillerRecommendations(RecLimit - 1)
    /\ merged.opportunities = FillerOpportunities(OppLimit)

FirstBrand(occ, key) == CHOOSE k \in 1..Len(occ) :
    BrandKey(occ[k]) = key /\ \A j \in 1..(k - 1) : BrandKey(occ[j]) # key

\* The place of the brand key among the keys of occ by mentions total
\* descending, ties by first occurrence.
BrandRank(occ, key) ==
    LET keys == {BrandKey(b) : b \in Range(occ)} \ {""}
    IN 1 + Cardinality({k \in keys :
                           \/ MentionsSum(occ, k) > MentionsSum(occ, key)
                           \/ /\ MentionsSum(occ, k) = MentionsSum(occ, key)
                              /\ FirstBrand(occ, k) < FirstBrand(occ, key)})

ShapedBrands(m, rs) ==
    LET occ == BrandOccurrences(rs)
        keys == {BrandKey(b) : b \in Range(occ)} \ {""}
    IN /\ Len(m.brands) = Cardinality(keys)
       /\ \A i \in 1..Len(m.brands) : BrandRank(occ, Lower(m.brands[i].name)) = i

\* C18: the merged brands hold every brand of the non-error results, none
\* cut, in descending order of mentions total and, among equal totals, in
\* the order their case-folded names were first met.
C18_BrandsAllSortedStable ==
    pc = "merge_all" => ShapedBrands(merged, results)

\* puma 7, met last, goes first; Adidas 5 and Nike 3 + 2 are tied and stay
\* in the order they were met.
C18_Witness ==
    /\ pc = "merge_all"
    /\ \A k \in 1..3 : ~results[k].error
    /\ results \in TiedBrandResults
    /\ merged.brands = <<Brand("puma", "shoes", "mixed", 7),
                         Brand("Adidas", "sportswear", "neutral", 5),
                         Brand("Nike", "sportswear", "positive", 5)>>

\* ---------------------------------------- claims on the batched pipeline
RECURSIVE Concat(_)
Concat(ss) == IF ss = <<>> THEN <<>> ELSE Head(ss) \o Concat(Tail(ss))

\* ceil(n / b) for b >= 1
CeilDiv(n, b) == (n + b - 1) \div b

\* C1: when the analysis call of a batch fails (it raises, or its answer
\* cannot be parsed), the pipeline does not abort: every batch is still
\* dispatched and the run returns the merge of the results of the batches
\* whose call succeeded.
C1_FailedBatchDoesNotAbort ==
    /\ pc # "bat_raised"
    /\ pc = "bat_returned" =>
          /\ Len(calls) = Len(batches)
          /\ ret = merge_commercial_results(ValidResults(batch_results))

\* C2: the analysis call never raises because of what the service's answer
\* holds: whatever the text, it returns the parsed object or an error-tagged
\* result carrying the text.
C2_AnswerNeverMakesTheCallRaise ==
    /\ fault # "parse"
    /\ \A k \in 1..Len(batch_results) :
          \/ ~batch_results[k].error
          \/ batch_results[k].raw # Missing

\* C7: the batcher makes ceil(N / B) batches, all of B comments but the
\* last, which holds N - B * (ceil(N / B) - 1); none is empty, and the
\* batches in order hold the comments in the stable descending order of
\* numRecommends, batch i the ranks (i - 1) * B + 1 .. i * B.
C7_BatchesPartitionTheSortedComments ==
    pc \in {"bat_progress", "bat_call", "bat_parse", "bat_merge", "bat_returned", "bat_raised"} =>
        LET n == Len(comments)
            b == batch_size
            count == CeilDiv(n, b)
            all == Concat(batches)
        IN /\ Len(batches) = count
           /\ \A i \in 1..(count - 1) : Len(batches[i]) = b
           /\ count > 0 => Len(batches[count]) = n - b * (count - 1)
           /\ \A i \in 1..count : batches[i] # <<>>
           /\ Len(all) = n
           /\ \A k \in 1..Len(all) :
                 /\ all[k].id \in 1..n
                 /\ all[k] = comments[all[k].id]
                 /\ RankOf(all[k], comments) = k
           /\ \A i \in 1..count : \A j \in 1..Len(batches[i]) :
                 RankOf(batches[i][j], comments) = (i - 1) * b + j

\* Three comments that did not arrive in rank order, two of them tied, in
\* batches of two: a full batch and a shorter last one.
C7_Witness ==
    /\ pc = "bat_progress"
    /\ Len(comments) = 3
    /\ batch_size = 2
    /\ Len(batches) = 2
    /\ Len(batches[2]) = 1
    /\ sorted_comments # comments
    /\ Recommends(batches[1][1]) = Recommends(batches[1][2])

\* The canonical empty result {brands: [], recommendations: [], opportunities: []}.
EmptyMergedResult == Result(FALSE, <<>>, <<>>, <<>>)

\* C19: when no batch result is valid (there is none, or each is
\* error-tagged) the batched pipeline returns the canonical empty result,
\* and a run whose every batch so far failed to parse does not end by
\* raising.
C19_NoValidResultYieldsEmptyResult ==
    /\ (pc = "bat_returned" /\ \A k \in 1..Len(batch_results) : batch_results[k].error)
          => ret = EmptyMergedResult
    /\ ~(/\ pc = "bat_raised"
         /\ fault = "parse"
         /\ \A k \in 1..Len(batch_results) : batch_results[k].error)

\* ------------------------------------------ claims on the analysis streams
\* The collection of the comments has ended: the one fetch of the article
\* flow has returned, or the scraping loop has gone through every article.
Collected ==
    IF flow = "article"
    THEN \E k \in 1..Len(events) : events[k].type = "result" /\ events[k].tag = "meta"
    ELSE Len(articles) > 0 /\ article_index = Len(articles) + 1

Terminal(e) == e.type \in {"complete", "error"}

\* C20: a run whose collected comments are none ends with exactly one
\* terminal event, a completion that reports there is no comment to
\* analyze, emits no error event and makes no analysis call.
C20_EmptyInputCompletesWithoutError ==
    (pc = "st_done" /\ Collected /\ total_comments = 0) =>
        /\ Cardinality({k \in 1..Len(events) : Terminal(events[k])}) = 1
        /\ events[Len(events)] = Event("complete", "No comments to analyze.", 0)
        /\ \A k \in 1..Len(events) : events[k].type # "error"
        /\ \A k \in 1..Len(service_calls) : service_calls[k].kind # "analysis"

\* C21: every run of a stream ends, with exactly one terminal event
\* (complete or error), and no event follows a terminal event: at any time
\* a terminal event is the last event, and the run has ended exactly when
\* there is one.
C21_Terminals ==
    /\ Cardinality({k \in 1..Len(events) : Terminal(events[k])}) <= 1
    /\ \A k \in 1..Len(events) : Terminal(events[k]) => k = Len(events)
    /\ pc = "st_done" <=> (events # <<>> /\ Terminal(events[Len(events)]))

C21_OneTerminalEventAtTheEnd == [](C21_Terminals) /\ <>(pc = "st_done")

\* A run that met a fetch failure, announced two batches or more and ended
\* on the failure of an analysis call after a batch that succeeded.
C21_Witness ==
    /\ pc = "st_done"
    /\ flow \in {"keyword", "section"}
    /\ \E k \in 1..Len(articles) : articles[k] = FetchFails
    /\ Len(stream_batches) >= 2
    /\ stream_batch_index >= 2
    /\ events[Len(events)].type = "error"

\* The per-batch progress events of a stream and its per-batch analysis
\* calls, each in the order of emission.
IsBatchProgress(e) == "total" \in DOMAIN e
IsBatchCall(c) == c.kind = "analysis" /\ c.what = "batch"
BatchProgressEvents == SelectSeq(events, IsBatchProgress)
BatchCalls == SelectSeq(service_calls, IsBatchCall)

\* The batch loop of extract_commercial_opportunities_batched: the progress
\* reports so far are (1, N), (2, N), ... without a gap, report i is made
\* before call i, call i carries batch i, and a call is issued only when
\* every earlier one has been answered and parsed.
BatchedDispatchInOrder ==
    LET n == Len(batches)
    IN /\ Len(calls) <= n
       /\ \A i \in 1..Len(calls) :
             calls[i] = prepare_comments_for_analysis(batches[i], Len(batches[i])).text
       /\ ~progress_callback => progress = <<>>
       /\ progress_callback =>
             /\ progress = [i \in 1..Len(progress) |-> [current |-> i, total |-> n]]
             /\ Len(calls) <= Len(progress)
             /\ Len(progress) <= Len(calls) + 1
       /\ pc = "bat_call" =>
             /\ Len(calls) = batch_index - 1
             /\ Len(batch_results) = Len(calls)
             /\ progress_callback => Len(progress) = batch_index
       /\ pc = "bat_parse" =>
             /\ Len(calls) = batch_index
             /\ Len(batch_results) = batch_index - 1
       /\ pc \in {"bat_merge", "bat_returned"} =>
             /\ Len(calls) = n
             /\ progress_callback => Len(progress) = n

\* The batch loop of the keyword and section streams, likewise.
StreamDispatchInOrder ==
    LET n == Len(stream_batches)
        reports == BatchProgressEvents
        sent == BatchCalls
    IN /\ Len(reports) <= n
       /\ \A i \in 1..Len(reports) :
             /\ reports[i].value = i
             /\ reports[i].total = n
             /\ reports[i].size = stream_batches[i]
       /\ \A i \in 1..Len(sent) : sent[i].size = stream_batches[i]
       /\ Len(sent) <= Len(reports)
       /\ Len(reports) <= Len(sent) + 1
       /\ pc = "st_batch_progress" =>
             Len(reports) = stream_batch_index - 1 /\ Len(sent) = stream_batch_index - 1
       /\ pc = "st_batch" =>
             Len(reports) = stream_batch_index /\ Len(sent) = stream_batch_index - 1
       /\ pc = "st_merge" => Len(reports) = n /\ Len(sent) = n
       /\ (pc = "st_done" /\ events[Len(events)].type = "complete") =>
             Len(reports) = n /\ Len(sent) = n

\* C22: in a batch loop over N batches the progress events are (1, N),
\* (2, N), ... one per batch, the event of batch i comes before the call of
\* batch i, the calls carry the batches in increasing order, one call per
\* batch, and a call is issued only after the one before it has returned; a
\* run that comes to its end has reported and sent all N batches.
C22_SequentialDispatchWithProgress ==
    BatchedDispatchInOrder /\ StreamDispatchInOrder

\* Three batches reported to the callback and sent, the run returned.
C22_Witness ==
    /\ pc = "bat_returned"
    /\ progress_callback
    /\ Len(batches) = 3
    /\ Len(progress) = 3
    /\ Len(calls) = 3
    /\ progress[3] = [current |-> 3, total |-> 3]

\* The credentials a flow needs: ANTHROPIC_API_KEY in all three, and
\* GUARDIAN_API_KEY for the search by keyword.
CredentialMissing == ~anthropic_key \/ (flow = "keyword" /\ ~guardian_key)

\* C23: when a credential the flow needs is missing, the run makes no
\* search, fetch or analysis call at any time, its first event is an error
\* event and it has no other: the run is over as soon as that event is out.
C23_MissingCredentialIsFatalAtOnce ==
    (flow \in Flows /\ CredentialMissing) =>
        /\ service_calls = <<>>
        /\ Len(events) <= 1
        /\ events # <<>> => events[1].type = "error"
        /\ pc = "st_done" <=> Len(events) = 1
        /\ pc \in {"st_check_key", "st_done"}

\* The keyword flow with the analysis credential but no search credential,
\* ended.
C23_Witness ==
    /\ pc = "st_done"
    /\ flow = "keyword"
    /\ anthropic_key
    /\ ~guardian_key
    /\ events = <<Event("error", "GUARDIAN_API_KEY not set", 0)>>

\* The fetches made so far, the warnings yielded so far and the analysis
\* calls made so far.
IsFetch(c) == c.kind = "fetch"
IsAnalysis(c) == c.kind = "analysis"
IsWarning(e) == e.tag = "Warning: Could not fetch comments"
Fetched == Len(SelectSeq(service_calls, IsFetch))
Warnings == SelectSeq(events, IsWarning)

\* Among the first k articles: those whose fetch fails, in order; the
\* comments of the others; how many of the others have a comment.
RECURSIVE FailingAmong(_)
FailingAmong(k) ==
    IF k = 0 THEN <<>>
    ELSE FailingAmong(k - 1) \o (IF articles[k] = FetchFails THEN <<k>> ELSE <<>>)

RECURSIVE CommentsAmong(_)
CommentsAmong(k) ==
    IF k = 0 THEN 0
    ELSE CommentsAmong(k - 1) + (IF articles[k] = FetchFails THEN 0 ELSE articles[k])

RECURSIVE WithCommentsAmong(_)
WithCommentsAmong(k) ==
    IF k = 0 THEN 0
    ELSE WithCommentsAmong(k - 1) + (IF articles[k] > 0 THEN 1 ELSE 0)

RECURSIVE SumOf(_)
SumOf(sizes) == IF sizes = <<>> THEN 0 ELSE Head(sizes) + SumOf(Tail(sizes))

\* C24: in the keyword and section flows a fetch that fails yields one
\* warning for its article, adds nothing to the comments nor to the count of
\* articles with comments, and does not stop the loop: a run leaves the
\* scraping loop only when every article has been fetched, and its batches
\* hold the comments of the articles whose fetch succeeded. In the article
\* flow a fetch that fails ends the run with an error event, and no
\* analysis call is made.
C24_FetchFailureSkipsOrAborts ==
    /\ flow \in {"keyword", "section"} =>
          /\ Fetched <= Len(articles)
          /\ Warnings = [i \in 1..Len(FailingAmong(Fetched)) |->
                            Event("progress", "Warning: Could not fetch comments",
                                  FailingAmong(Fetched)[i])]
          /\ total_comments = CommentsAmong(Fetched)
          /\ articles_with_comments = WithCommentsAmong(Fetched)
          /\ (Fetched > 0 /\ pc # "st_scrape") => Fetched = Len(articles)
          /\ pc \in {"st_batch_progress", "st_batch", "st_merge"} =>
                SumOf(stream_batches) = CommentsAmong(Len(articles))
          /\ (pc = "st_done" /\ Fetched > 0) =>
                IF CommentsAmong(Len(articles)) = 0
                THEN stream_batches = <<>>
                ELSE SumOf(stream_batches) = CommentsAmong(Len(articles))
    /\ (flow = "article" /\ articles[1] = FetchFails) =>
          /\ SelectSeq(service_calls, IsAnalysis) = <<>>
          /\ Fetched = 1 => (pc = "st_done" /\ events[Len(events)].type = "error")

\* Two articles, the fetch of the first failed, the second gave a comment,
\* and the run completed over that comment.
C24_Witness ==
    /\ pc = "st_done"
    /\ flow = "section"
    /\ articles = <<FetchFails, 1>>
    /\ Len(Warnings) = 1
    /\ articles_with_comments = 1
    /\ stream_batches = <<1>>
    /\ events[Len(events)].type = "complete"

\* C25: invocations that run at the same time share no mutable state: the
\* client an invocation loads from the global is never one that another
\* invocation stored there.
C25_NoClientOfAnotherInvocation ==
    pc = "client" =>
        \A i \in Invocations : loaded[i] \in {NoClient, i}

\* The positions, over all the text blocks sent, of the lines of the comment
\* with a given id.
LinesOf(id) ==
    {<<k, j>> \in (1..Len(calls)) \X (1..Len(comments)) :
        j <= Len(calls[k]) /\ calls[k][j].id = id}

\* C26: the text block sent for a batch has one line per comment of the
\* batch, in the batch's order, line j being comment j of the batch with its
\* likes, numbered j: the numbering starts at 1 in every batch and nothing
\* is sampled out; once every batch is sent, every comment passed in has
\* been sent exactly once.
C26_BatchTextHoldsEveryCommentOnce ==
    /\ \A k \in 1..Len(calls) :
          /\ Len(calls[k]) = Len(batches[k])
          /\ \A j \in 1..Len(calls[k]) :
                /\ calls[k][j].index = j
                /\ calls[k][j].id = batches[k][j].id
                /\ calls[k][j].likes = Recommends(batches[k][j])
    /\ pc \in {"bat_merge", "bat_returned"} =>
          \A c \in 1..Len(comments) : Cardinality(LinesOf(comments[c].id)) = 1

\* Three comments not in rank order, in batches of two: the second text
\* block holds the one comment of the last batch, numbered 1.
C26_Witness ==
    /\ pc = "bat_returned"
    /\ Len(comments) = 3
    /\ sorted_comments # comments
    /\ batch_size = 2
    /\ Len(calls) = 2
    /\ Len(calls[1]) = 2
    /\ Len(calls[2]) = 1
    /\ calls[2][1].index = 1
    /\ calls[2][1].id = sorted_comments[3].id

\* The meta events of a run, and the number of comments the run has
\* formatted and sent: the size of the one selection in the article flow
\* (the same text block goes to each analysis), the sizes of the batches
\* sent in the keyword and section flows.
IsMeta(e) == e.type = "result" /\ e.tag = "meta"
MetaEvents == SelectSeq(events, IsMeta)
AnalysisCalls == SelectSeq(service_calls, IsAnalysis)
CommentsSent ==
    IF flow = "article"
    THEN (IF AnalysisCalls = <<>> THEN 0 ELSE AnalysisCalls[1].size)
    ELSE SumOf([i \in 1..Len(BatchCalls) |-> BatchCalls[i].size])

\* C27: in a run that completes, the commentsAnalyzed of the meta event is
\* the number of comments formatted and sent to the analysis service.
C27_ReportedCoverageIsActualCoverage ==
    (pc = "st_done" /\ events[Len(events)].type = "complete") =>
        /\ Len(MetaEvents) = 1
        /\ MetaEvents[1].value = CommentsSent

====
